---- MODULE Spec2Model ----
(***************************************************************************)
(* B-Max chatbot backend (src/main.py): the in-memory session store, the   *)
(* chat turn, profile resolution, and the tender context formatter.        *)
(*                                                                         *)
(* Conventions.                                                            *)
(*  - A Python dict is a function from key strings to values; dict.get is  *)
(*    PyGet.  Python's None is the record None.                            *)
(*  - A string whose characters the code inspects (a user id) is a         *)
(*    sequence of one-character strings.                                   *)
(*  - A formatted text is the sequence of its lines, each line a record    *)
(*    [label, value] of the fixed label the f-string prints and the value  *)
(*    it interpolates.                                                     *)
(*  - Every handler is an `async def` without an await in it, and the      *)
(*    completion client is synchronous: on the single event loop a handler *)
(*    runs to its end before the next one starts.  The chat handler is     *)
(*    split at the completion call (pc = "completion") so that the state   *)
(*    between its two appends is a state of the model; no other handler    *)
(*    is enabled there.                                                    *)
(***************************************************************************)
EXTENDS Integers, Sequences, FiniteSets, TLC

VARIABLES
    ollama_available,   \* main.py:55-73   module global, set at import
    dynamodb,           \* main.py:28-52   TRUE: a client object, FALSE: None
    cognito,            \* main.py:37-52   TRUE: a client object, FALSE: None
    user_sessions,      \* main.py:87      user id -> UserSession
    now,                \* the wall clock datetime.now() reads, in seconds
    pc,                 \* "idle", or "completion": chat() is inside client.chat
    request,            \* the locals of the chat() call in flight
    response,           \* what the last handler returned to its HTTP caller
    issued,             \* history: per session, its instruction message as
                        \* created and as last regenerated
    probe               \* input and result of an operation applied on its own

vars == <<ollama_available, dynamodb, cognito, user_sessions, now, pc,
          request, response, issued, probe>>

-----------------------------------------------------------------------------
(* Python values *)

None == [none |-> TRUE]

EmptyDict == [k \in {} |-> ""]

PyGet(d, k, default) == IF k \in DOMAIN d THEN d[k] ELSE default

\* bool(d) of a dict-or-None value
Truthy(d) == d # None /\ DOMAIN d # {}

StartsWith(s, p) == Len(s) >= Len(p) /\ SubSeq(s, 1, Len(p)) = p

HasChar(s, c) == \E i \in 1..Len(s) : s[i] = c

RECURSIVE Concat(_)
Concat(ss) == IF ss = <<>> THEN <<>> ELSE Head(ss) \o Concat(Tail(ss))

Min(a, b) == IF a <= b THEN a ELSE b

Line(label, value) == [label |-> label, value |-> value]

-----------------------------------------------------------------------------
(* Program constants *)

CATEGORIES ==
    <<"Engineering Services", "IT Services", "Construction", "Consulting",
      "Supplies", "Maintenance", "Logistics", "Healthcare">>

\* add_message: `if len(self.chat_context) > 21`
ContextLimit == 21

\* add_message: `self.chat_context[-20:]`
RecentKept == 20

\* cleanup_old_sessions: `.total_seconds() > 7200`
SessionTimeout == 7200

\* get_tenders_by_multiple_categories: `unique_tenders[:10]`
MaxUniqueTenders == 10

-----------------------------------------------------------------------------
(* User identifiers the model sends *)

\* the default of ChatRequest.user_id
Guest == <<"g", "u", "e", "s", "t">>

\* an identifier with one of the region prefixes load_user_profile looks for
RegionId == <<"a", "f", "-", "s", "o", "u", "t", "h", "-", "1", ":", "7">>

\* a short e-mail address
MailId == <<"a", "@", "b", ".", "z", "a">>

\* an identifier of 21 characters, none of them '@'
LongId == <<"3", "f", "9", "c", "2", "a", "7", "e", "-", "1", "b",
            "4", "d", "-", "4", "c", "0", "e", "-", "9", "a">>

\* an e-mail address of 22 characters
LongMailId == <<"t", "h", "a", "n", "d", "i", ".", "m", "@", "e", "x",
                "a", "m", "p", "l", "e", ".", "c", "o", ".", "z", "a">>

AllIds == {Guest, RegionId, MailId, LongId, LongMailId}

RegionPrefixes ==
    { <<"u", "s", "-", "e", "a", "s", "t", "-">>,
      <<"u", "s", "-", "w", "e", "s", "t", "-">>,
      <<"a", "f", "-", "s", "o", "u", "t", "h", "-">> }

\* load_user_profile, Strategy 1's condition
LooksLikeUuid(uid) ==
    (\E p \in RegionPrefixes : StartsWith(uid, p)) \/ Len(uid) > 20

-----------------------------------------------------------------------------
(* The database's tagged-union values and the record normalizer            *)
(* A tagged value is [tag, val]: the one-key dict {tag: val}.              *)

Tagged(tag, val) == [tag |-> tag, val |-> val]

\* The letters the normalizer's `in` tests look for, as they occur in the
\* strings of the model: `'S' in v` on a str v is a substring test.
TagLetterStrings == {"IT Services", "Supplies", "SS", "S", "N", "M", "L", "BOOL"}

\* `n.isdigit()` on the numeric strings of the model
IsDigits(n) == n \in {"0", "5", "42", "2024"}

\* The number an N value becomes: int(n) or float(n)
PyNumber(n) == [number |-> n, type |-> IF IsDigits(n) THEN "int" ELSE "float"]

\* dd_to_py applied to one element of a list value, the one-key dict
\* {tag: val}: the loop's v is the raw val, and `'S' in v` means what
\* Python's `in` means for v's type.  TRUE when it raises a TypeError.
\* (No attribute of the model's items is itself named like a tag.)
ElementRaises(el) ==
    CASE el.tag \in {"S", "N"} ->
            \* v is a str: a substring test, then v['S'] on a str
            el.val \in TagLetterStrings
      [] el.tag \in {"BOOL", "NULL"} ->
            \* v is a bool: `'S' in True`
            TRUE
      [] el.tag = "SS" ->
            \* v is a list of str: membership, then v['S'] on a list
            \E i \in 1..Len(el.val) :
                el.val[i] \in {"S", "N", "BOOL", "SS", "M", "L"}
      [] OTHER ->
            \* v is a list of dicts or a dict of attributes: every test fails
            FALSE

\* What dd_to_py returns for such an element when it does not raise: no
\* branch assigned, the empty dict
ElementToPy(el) == EmptyDict

\* TRUE when dd_to_py(item) raises
RECURSIVE DdToPyRaises(_)
DdToPyRaises(item) ==
    \E k \in DOMAIN item :
        \/ item[k].tag = "M" /\ DdToPyRaises(item[k].val)
        \/ item[k].tag = "L" /\ \E i \in 1..Len(item[k].val) :
                                    ElementRaises(item[k].val[i])

\* dd_to_py(item) when it returns: a value of an unknown tag leaves no key
RECURSIVE DdToPy(_)
DdToPy(item) ==
    [k \in {a \in DOMAIN item : item[a].tag \in {"S", "N", "BOOL", "SS", "M", "L"}} |->
        CASE item[k].tag = "N" -> PyNumber(item[k].val)
          [] item[k].tag = "M" -> DdToPy(item[k].val)
          [] item[k].tag = "L" ->
                [i \in 1..Len(item[k].val) |-> ElementToPy(item[k].val[i])]
          [] OTHER -> item[k].val]

\* The `if 'S' in value: tender[key] = value['S']` loop of the tender scans
StringFields(item) ==
    [k \in {a \in DOMAIN item : item[a].tag = "S"} |-> item[k].val]

-----------------------------------------------------------------------------
(* The profile store and the identity provider, as far as profile          *)
(* resolution reads them                                                   *)

\* An absent or empty string: the code tests both with `if x:`
NoString == <<>>

\* The unique id and the e-mail address the identity provider answers with
CognitoSub == <<"s", "u", "b", "-", "1">>

CognitoEmail == <<"t", "@", "x", ".", "z", "a">>

\* What a scan of the profile table can do: raise, find nothing, find an
\* item, or find an item whose preferredCategories is a list of strings
\* the normalizer raises on
LookupOutcomes == {"raise", "miss", "hit", "unreadable"}

\* admin_get_user: raise (also: no such user), or a user with or without an
\* e-mail attribute, or a response carrying no UserSub
UsernameOutcomes == {"raise", "found", "no_email", "no_sub"}

\* list_users: raise, no user, or a user with or without UserSub
EmailOutcomes == {"raise", "empty", "found", "no_sub"}

\* The item the profile table holds for a user id
UserItemById(key) ==
    [userId |-> Tagged("S", key),
     firstName |-> Tagged("S", "Thandi"),
     lastName |-> Tagged("S", "Mokoena"),
     companyName |-> Tagged("S", "Acme Civils"),
     preferredCategories |-> Tagged("SS", <<"Construction", "Catering">>)]

\* The item the profile table holds for an e-mail address: no first name
UserItemByEmail(key) ==
    [email |-> Tagged("S", key),
     companyName |-> Tagged("S", "Umzansi Supplies"),
     position |-> Tagged("S", "Buyer")]

\* The same items with the categories stored as a list of string values
Unreadable(item) ==
    [k \in DOMAIN item \cup {"preferredCategories"} |->
        IF k = "preferredCategories"
        THEN Tagged("L", <<Tagged("S", "IT Services")>>)
        ELSE item[k]]

\* The response of dynamodb.scan under an outcome
ScanResponse(outcome, item) ==
    [raises |-> outcome = "raise",
     items |-> CASE outcome = "hit" -> <<item>>
                 [] outcome = "unreadable" -> <<Unreadable(item)>>
                 [] OTHER -> <<>>]

\* The body the two profile lookups share: `dd_to_py(items[0]) if items
\* else None`, any exception caught and answered with None
FirstItemOrNone(resp) ==
    IF resp.raises THEN None
    ELSE IF resp.items = <<>> THEN None
    ELSE IF DdToPyRaises(resp.items[1]) THEN None
    ELSE DdToPy(resp.items[1])

\* A scan filtered on an absent key is refused by the client: it raises
get_user_profile_by_user_id(user_id, outcome) ==
    FirstItemOrNone(ScanResponse(IF user_id = NoString THEN "raise" ELSE outcome,
                                 UserItemById(user_id)))

get_user_profile_by_email(email, outcome) ==
    FirstItemOrNone(ScanResponse(outcome, UserItemByEmail(email)))

\* The dict both identity-provider helpers build (the fields that are read)
CognitoUser(user_id, email) == [user_id |-> user_id, email |-> email]

get_cognito_user_by_username(username, cog, outcome) ==
    IF ~cog THEN None
    ELSE CASE outcome = "found" -> CognitoUser(CognitoSub, CognitoEmail)
           [] outcome = "no_email" -> CognitoUser(CognitoSub, NoString)
           [] outcome = "no_sub" -> CognitoUser(NoString, CognitoEmail)
           [] OTHER -> None

get_cognito_user_by_email(email, cog, outcome) ==
    IF ~cog THEN None
    ELSE CASE outcome = "found" -> CognitoUser(CognitoSub, email)
           [] outcome = "no_sub" -> CognitoUser(NoString, email)
           [] OTHER -> None

\* Every combination of outcomes of the external calls of one resolution
ProfileEnvs ==
    [direct : LookupOutcomes, username : UsernameOutcomes, email : EmailOutcomes,
     by_uuid : LookupOutcomes, by_cognito_email : LookupOutcomes,
     by_email : LookupOutcomes]

create_default_profile ==
    [firstName |-> "User", lastName |-> "", companyName |-> "Unknown",
     position |-> "User", location |-> "Unknown", preferredCategories |-> <<>>]

\* The result of load_user_profile: the two fields it sets, and the calls
\* it made to the external services, in order
Loaded(profile, cognito_user, calls) ==
    [user_profile |-> profile, cognito_user |-> cognito_user, calls |-> calls]

\* Mutant: no default profile when every lookup misses
LoadByEmailOrNothing(uid, env, cognito_user, calls) ==
    LET tryMail == HasChar(uid, "@")
        profile == IF tryMail THEN get_user_profile_by_email(uid, env.by_email)
                   ELSE None
        calls3 == calls \o (IF tryMail THEN <<"scan email = user_id">> ELSE <<>>)
    IN  Loaded(profile, cognito_user, calls3)

\* Strategy 3 and the default
LoadByEmailOrDefault(uid, env, cognito_user, calls) ==
    LET tryMail == HasChar(uid, "@")
        profile == IF tryMail THEN get_user_profile_by_email(uid, env.by_email)
                   ELSE None
        calls3 == calls \o (IF tryMail THEN <<"scan email = user_id">> ELSE <<>>)
    IN  IF tryMail /\ Truthy(profile)
        THEN Loaded(profile, cognito_user, calls3)
        ELSE Loaded(create_default_profile, cognito_user, calls3)

\* Strategy 2
LoadViaCognito(uid, cog, env, calls) ==
    LET byName == get_cognito_user_by_username(uid, cog, env.username)
        tryMail == byName = None /\ HasChar(uid, "@")
        cognito_user == IF tryMail
                        THEN get_cognito_user_by_email(uid, cog, env.email)
                        ELSE byName
        calls1 == calls
                  \o (IF cog THEN <<"cognito admin_get_user">> ELSE <<>>)
                  \o (IF tryMail /\ cog THEN <<"cognito list_users">> ELSE <<>>)
    IN  IF cognito_user = None
        THEN LoadByEmailOrDefault(uid, env, cognito_user, calls1)
        ELSE
        LET byUuid == get_user_profile_by_user_id(cognito_user.user_id, env.by_uuid)
            calls2 == calls1 \o <<"scan userId = cognito uuid">>
            tryCognitoMail == cognito_user.email # NoString
            byMail == IF tryCognitoMail
                      THEN get_user_profile_by_email(cognito_user.email,
                                                     env.by_cognito_email)
                      ELSE None
            calls3 == calls2 \o (IF tryCognitoMail
                                 THEN <<"scan email = cognito email">> ELSE <<>>)
        IN  IF Truthy(byUuid) THEN Loaded(byUuid, cognito_user, calls2)
            ELSE IF tryCognitoMail /\ Truthy(byMail)
                 THEN Loaded(byMail, cognito_user, calls3)
            ELSE LoadByEmailOrDefault(uid, env, cognito_user, calls3)

\* Mutant: the identity provider asked first, the direct lookup never made
load_user_profileProviderFirst(uid, db, cog, env) ==
    IF ~db THEN Loaded(create_default_profile, None, <<>>)
    ELSE LoadViaCognito(uid, cog, env, <<>>)

\* UserSession.load_user_profile.  Its helpers catch every exception, so the
\* outer except branch is not reached.
load_user_profile(uid, db, cog, env) ==
    IF ~db THEN Loaded(create_default_profile, None, <<>>)
    ELSE
    LET tryDirect == LooksLikeUuid(uid)
        direct == IF tryDirect THEN get_user_profile_by_user_id(uid, env.direct)
                  ELSE None
        calls == IF tryDirect THEN <<"scan userId = user_id">> ELSE <<>>
    IN  IF tryDirect /\ Truthy(direct)
        THEN Loaded(direct, None, calls)
        ELSE LoadViaCognito(uid, cog, env, calls)

-----------------------------------------------------------------------------
(* The tender table and the context formatter *)

\* The response of a scan of the tender table
ScanRaises == [raises |-> TRUE, items |-> <<>>]

ScanOf(items) == [raises |-> FALSE, items |-> items]

\* A tender with both URLs
TenderRoad ==
    [tenderId |-> Tagged("S", "T-1"), title |-> Tagged("S", "Road upgrade"),
     Category |-> Tagged("S", "Construction"),
     link |-> Tagged("S", "https://docs.example/t1.pdf"),
     sourceUrl |-> Tagged("S", "https://portal.example/t1"),
     contactEmail |-> Tagged("S", "scm@example.gov.za"),
     value |-> Tagged("N", "2024")]

\* A tender with the source URL only, and the older id attribute
TenderClinic ==
    [tender_id |-> Tagged("S", "T-2"), title |-> Tagged("S", "Clinic build"),
     Category |-> Tagged("S", "Healthcare"),
     sourceUrl |-> Tagged("S", "https://portal.example/t2")]

\* A tender whose link attribute is stored as NULL, and without any id
TenderNullLink ==
    [title |-> Tagged("S", "Fencing"),
     link |-> Tagged("NULL", TRUE),
     sourceUrl |-> Tagged("S", "https://portal.example/t3")]

\* A tender whose two URL attributes hold the same address
TenderSameUrl ==
    [tenderId |-> Tagged("S", "T-4"),
     link |-> Tagged("S", "https://portal.example/t4"),
     sourceUrl |-> Tagged("S", "https://portal.example/t4")]

\* A tender with no URL at all
TenderBare == [tenderId |-> Tagged("S", "T-1"), status |-> Tagged("S", "open")]

TenderItems == {TenderRoad, TenderClinic, TenderNullLink, TenderSameUrl, TenderBare}

\* Mutant: the source URL printed when there is no link
FormatTenderSourceAsLink(i, tender) ==
    <<Line("TENDER #", ToString(i)),
      Line("Title", PyGet(tender, "title", "Unknown Title")),
      Line("Documents", PyGet(tender, "link",
                              PyGet(tender, "sourceUrl", "No link available"))),
      Line("Source", PyGet(tender, "sourceUrl", "N/A")),
      Line("rule", "")>>

\* One tender's block of format_tenders_for_ai
FormatTender(i, tender) ==
    LET title == PyGet(tender, "title", "Unknown Title")
        category == PyGet(tender, "Category", "Uncategorized")
        closing_date == PyGet(tender, "closingDate", "Unknown")
        agency == PyGet(tender, "sourceAgency", "Unknown Agency")
        status == PyGet(tender, "status", "Unknown")
        reference_number == PyGet(tender, "referenceNumber", "N/A")
        link == PyGet(tender, "link", "No link available")
        contact_name == PyGet(tender, "contactName", "N/A")
        contact_email == PyGet(tender, "contactEmail", "N/A")
        contact_number == PyGet(tender, "contactNumber", "N/A")
        source_url == PyGet(tender, "sourceUrl", "N/A")
    IN  <<Line("TENDER #", ToString(i)),
          Line("Title", title),
          Line("Reference", reference_number),
          Line("Category", category),
          Line("Agency", agency),
          Line("Closing Date", closing_date),
          Line("Status", status)>>
        \o (IF contact_name # "N/A" \/ contact_email # "N/A" \/ contact_number # "N/A"
            THEN <<Line("Contact Info", "")>>
                 \o (IF contact_name # "N/A" THEN <<Line("Name", contact_name)>> ELSE <<>>)
                 \o (IF contact_email # "N/A" THEN <<Line("Email", contact_email)>> ELSE <<>>)
                 \o (IF contact_number # "N/A" THEN <<Line("Phone", contact_number)>> ELSE <<>>)
            ELSE <<>>)
        \o <<Line("Documents", link),
             Line("Source", source_url),
             Line("rule", "")>>

format_tenders_for_ai(tenders) ==
    IF tenders = <<>> THEN <<Line("text", "No tender data available.")>>
    ELSE <<Line("text", "RECENT TENDERS AVAILABLE:")>>
         \o Concat([i \in 1..Len(tenders) |-> FormatTender(i, tenders[i])])
         \o <<Line("text", "I can help you analyze these tenders")>>

\* The tenders a scan response is turned into: string attributes only
ScannedTenders(resp) == [i \in 1..Len(resp.items) |-> StringFields(resp.items[i])]

get_tender_information(db, resp) ==
    IF ~db THEN <<Line("text", "Database currently unavailable")>>
    ELSE IF resp.raises THEN <<Line("Error accessing tender database", "exception")>>
    ELSE IF resp.items = <<>> THEN <<Line("text", "No tenders found in the database.")>>
    ELSE format_tenders_for_ai(ScannedTenders(resp))

\* An optional list: Python's None, or Some(list)
Some(list) == [some |-> list]

ListOf(opt) == IF opt = None THEN <<>> ELSE opt.some

\* Every category the handler searches for is one of CATEGORIES, which
\* category_mapping leaves as it is; the scan's Limit is the table's concern
search_tenders_by_category(category, db, resp) ==
    IF ~db THEN None
    ELSE IF resp.raises THEN None
    ELSE Some(ScannedTenders(resp))

\* `tender.get('tenderId') or tender.get('tender_id')`, "" for a falsy id
TenderIdOf(tender) ==
    LET a == PyGet(tender, "tenderId", "")
    IN  IF a # "" THEN a ELSE PyGet(tender, "tender_id", "")

\* The duplicate-removing loop
RECURSIVE UniqueTenders(_, _)
UniqueTenders(all_tenders, seen_ids) ==
    IF all_tenders = <<>> THEN <<>>
    ELSE LET tender == Head(all_tenders)
             tender_id == TenderIdOf(tender)
         IN  IF tender_id # "" /\ tender_id \notin seen_ids
             THEN <<tender>> \o UniqueTenders(Tail(all_tenders), seen_ids \cup {tender_id})
             ELSE UniqueTenders(Tail(all_tenders), seen_ids)

\* searches[i] is the response of the scan for categories[i]
get_tenders_by_multiple_categories(categories, db, searches) ==
    IF ~db THEN None
    ELSE LET all_tenders ==
                 Concat([i \in 1..Len(categories) |->
                            ListOf(search_tenders_by_category(categories[i], db, searches[i]))])
             unique_tenders == UniqueTenders(all_tenders, {})
         IN  Some(SubSeq(unique_tenders, 1, Min(Len(unique_tenders), MaxUniqueTenders)))

-----------------------------------------------------------------------------
(* Prompts and the context attached to them *)

\* A prompt is the sequence of its words.
Hello == <<"hello">>

AnyTenders == <<"any", "Tenders">>

BuildClinic == <<"construction", "for", "a", "clinic">>

ItSoftware == <<"IT", "procurement">>

Prompts == {Hello, AnyTenders, BuildClinic, ItSoftware}

\* str.lower() on the words of the model
Lower(word) ==
    CASE word = "Tenders" -> "tenders"
      [] word = "IT" -> "it"
      [] OTHER -> word

\* `keyword in user_prompt_lower`: the keyword occurs inside a word
OccursIn(keyword, words) ==
    \E i \in 1..Len(words) :
        \/ Lower(words[i]) = keyword
        \/ <<keyword, Lower(words[i])>> \in
              { <<"tender", "tenders">>, <<"clinic", "clinical">>,
                <<"health", "healthcare">>, <<"engineer", "engineering">> }

category_keywords ==
    [c \in {CATEGORIES[i] : i \in 1..Len(CATEGORIES)} |->
        CASE c = "Engineering Services" ->
                {"engineering", "engineer", "technical", "design", "infrastructure"}
          [] c = "IT Services" ->
                {"IT", "technology", "software", "hardware", "computer", "digital",
                 "tech", "programming"}
          [] c = "Construction" ->
                {"construction", "building", "civil", "contractor", "build", "renovation"}
          [] c = "Consulting" ->
                {"consulting", "consultant", "advisory", "strategy", "management"}
          [] c = "Supplies" ->
                {"supplies", "supply", "goods", "materials", "equipment", "products"}
          [] c = "Maintenance" ->
                {"maintenance", "repair", "service", "upkeep", "support"}
          [] c = "Logistics" ->
                {"logistics", "transport", "shipping", "delivery", "supply chain"}
          [] OTHER ->
                {"healthcare", "medical", "health", "hospital", "clinic", "pharmaceutical"}]

tender_keywords ==
    {"tender", "tenders", "procurement", "bid", "category", "recommend",
     "suggest", "opportunity", "RFP", "RFQ"}

\* The categories whose keywords occur in the prompt, in the dict's order
MatchedCategories(user_prompt) ==
    SelectSeq(CATEGORIES,
              LAMBDA c : \E keyword \in category_keywords[c] :
                            OccursIn(keyword, user_prompt))

get_first_name(user_profile) ==
    IF Truthy(user_profile) THEN PyGet(user_profile, "firstName", "User") ELSE "User"

\* Mutant: nothing attached when the category searches find nothing
enhance_prompt_with_contextNoFallback(user_prompt, user_profile, db, tenders) ==
    LET matched_categories == MatchedCategories(user_prompt)
        related == \E keyword \in tender_keywords : OccursIn(keyword, user_prompt)
        specific_tenders ==
            ListOf(get_tenders_by_multiple_categories(matched_categories, db,
                                                      tenders.searches))
        database_context ==
            IF matched_categories # <<>> /\ specific_tenders # <<>>
            THEN <<Line("Tenders in categories", matched_categories)>>
                 \o format_tenders_for_ai(specific_tenders)
            ELSE IF matched_categories = <<>> /\ related
                 THEN get_tender_information(db, tenders.recent)
            ELSE <<>>
    IN  [User |-> get_first_name(user_profile),
         Message |-> user_prompt,
         context |-> database_context]

\* The text enhance_prompt_with_context returns.  tenders.searches are the
\* responses of the category scans, tenders.recent that of the general scan.
enhance_prompt_with_context(user_prompt, user_profile, db, tenders) ==
    LET matched_categories == MatchedCategories(user_prompt)
        related == \E keyword \in tender_keywords : OccursIn(keyword, user_prompt)
        specific_tenders ==
            ListOf(get_tenders_by_multiple_categories(matched_categories, db,
                                                      tenders.searches))
        database_context ==
            IF related \/ matched_categories # <<>>
            THEN IF matched_categories # <<>>
                 THEN IF specific_tenders # <<>>
                      THEN <<Line("Tenders in categories", matched_categories)>>
                           \o format_tenders_for_ai(specific_tenders)
                      ELSE <<Line("No specific tenders found for categories",
                                  matched_categories)>>
                           \o get_tender_information(db, tenders.recent)
                 ELSE get_tender_information(db, tenders.recent)
            ELSE <<>>
    IN  [User |-> get_first_name(user_profile),
         Message |-> user_prompt,
         context |-> database_context]

-----------------------------------------------------------------------------
(* UserSession *)

\* f"{first_name} {last_name}".strip(): the name parts that are not empty
get_display_name(user_profile) ==
    IF Truthy(user_profile)
    THEN SelectSeq(<<PyGet(user_profile, "firstName", "User"),
                     PyGet(user_profile, "lastName", "")>>,
                   LAMBDA part : part # "")
    ELSE <<"User">>

\* The values create_system_prompt interpolates; `time` is datetime.now()
create_system_prompt(user_profile, first_name, time) ==
    LET has == Truthy(user_profile)
        preferred_categories ==
            IF has THEN PyGet(user_profile, "preferredCategories", <<>>) ELSE <<>>
        valid_preferred_categories ==
            SelectSeq(preferred_categories,
                      LAMBDA cat : \E i \in 1..Len(CATEGORIES) : CATEGORIES[i] = cat)
    IN  [first_name |-> first_name,
         company |-> IF has THEN PyGet(user_profile, "companyName", "Unknown") ELSE "Unknown",
         position |-> IF has THEN PyGet(user_profile, "position", "Unknown") ELSE "Unknown",
         location |-> IF has THEN PyGet(user_profile, "location", "Unknown") ELSE "Unknown",
         categories |-> IF valid_preferred_categories # <<>>
                        THEN valid_preferred_categories ELSE <<"Not specified">>,
         time |-> time]

\* One element of chat_context.  `n` is not a key of the dict: it is the
\* ordinal of the append that added the message (0: the instruction
\* message), by which the statements about order name a message.
Message(role, content, n) == [role |-> role, content |-> content, n |-> n]

\* UserSession.__init__ with the profile load_user_profile resolved
UserSession(user_id, loaded, time) ==
    [user_id |-> user_id,
     user_profile |-> loaded.user_profile,
     cognito_user |-> loaded.cognito_user,
     chat_context |->
        <<Message("system",
                  create_system_prompt(loaded.user_profile,
                                       get_first_name(loaded.user_profile), time),
                  0)>>,
     last_active |-> time,
     greeted |-> FALSE,
     total_messages |-> 0]

\* Mutant: the slice taken without keeping the system message apart
TruncateContextNoSystem(chat_context) ==
    SubSeq(chat_context, Len(chat_context) - RecentKept, Len(chat_context))

\* Mutant: the oldest messages kept instead of the most recent
TruncateContextOldest(chat_context) ==
    <<chat_context[1]>> \o SubSeq(chat_context, 2, RecentKept + 1)

\* The slice of add_message: the system message and the most recent ones
TruncateContext(chat_context) ==
    <<chat_context[1]>>
    \o SubSeq(chat_context, Len(chat_context) - RecentKept + 1, Len(chat_context))

\* Mutant: the message inserted right after the system message
add_messageInsertFirst(session, role, content) ==
    LET inserted == <<session.chat_context[1],
                      Message(role, content, session.total_messages + 1)>>
                    \o Tail(session.chat_context)
    IN  [session EXCEPT
            !.chat_context = IF Len(inserted) > ContextLimit
                             THEN TruncateContext(inserted) ELSE inserted,
            !.total_messages = session.total_messages + 1]

add_message(session, role, content) ==
    LET appended == Append(session.chat_context,
                           Message(role, content, session.total_messages + 1))
    IN  [session EXCEPT
            !.chat_context = IF Len(appended) > ContextLimit
                             THEN TruncateContext(appended) ELSE appended,
            !.total_messages = session.total_messages + 1]

get_context_summary(session) ==
    [user_id |-> session.user_id,
     total_messages |-> session.total_messages,
     context_length |-> Len(session.chat_context),
     last_active |-> session.last_active,
     user_profile_loaded |-> session.user_profile # None]

-----------------------------------------------------------------------------
(* The session map *)

\* Mutant: the sweep marks the sessions it keeps as active now
cleanup_old_sessionsRefreshing(sessions, time) ==
    LET expired_users == {user_id \in DOMAIN sessions :
                             time - sessions[user_id].last_active > SessionTimeout}
    IN  [user_id \in DOMAIN sessions \ expired_users |->
            [sessions[user_id] EXCEPT !.last_active = time]]

\* Mutant: a session evicted already when its age reaches the timeout
cleanup_old_sessionsAtTimeout(sessions, time) ==
    LET expired_users == {user_id \in DOMAIN sessions :
                            time - sessions[user_id].last_active >= SessionTimeout}
    IN  [user_id \in DOMAIN sessions \ expired_users |-> sessions[user_id]]

\* The sessions cleanup_old_sessions leaves in the map at `time`
cleanup_old_sessions(sessions, time) ==
    LET expired_users == {user_id \in DOMAIN sessions :
                            time - sessions[user_id].last_active > SessionTimeout}
    IN  [user_id \in DOMAIN sessions \ expired_users |-> sessions[user_id]]

\* Mutant: a session constructed on every call
get_user_sessionAlwaysNew(sessions, user_id, loaded, time) ==
    [u \in DOMAIN sessions \cup {user_id} |->
        IF u = user_id THEN UserSession(user_id, loaded, time) ELSE sessions[u]]

\* The map after get_user_session(user_id): the session is created when
\* absent, and its activity is updated either way
get_user_session(sessions, user_id, loaded, time) ==
    LET session == IF user_id \notin DOMAIN sessions
                   THEN UserSession(user_id, loaded, time)
                   ELSE sessions[user_id]
    IN  [u \in DOMAIN sessions \cup {user_id} |->
            IF u = user_id THEN [session EXCEPT !.last_active = time]
            ELSE sessions[u]]

-----------------------------------------------------------------------------
(* Bounds and inputs of the service model *)

\* The clock stops here
MaxTime == 7201

\* The steps the clock makes: the timeout exactly, and one second more
ClockSteps == {SessionTimeout, SessionTimeout + 1}

\* Spec accepts a chat while the live sessions hold fewer appended messages
MaxLiveMessages == 4

\* The same for SpecTurn
MaxTurnMessages == 2

\* SpecWindow accepts a chat while the session has had fewer appends
MaxWindowMessages == 30

\* The user ids Spec sends
UserIds == {Guest, RegionId}

\* What the scans of the tender table answer during one chat
TenderScans == {ScanRaises, ScanOf(<<>>), ScanOf(<<TenderRoad, TenderClinic>>)}

TenderChoices(user_prompt) ==
    LET k == Len(MatchedCategories(user_prompt))
        related == \E keyword \in tender_keywords : OccursIn(keyword, user_prompt)
    IN  IF k = 0 /\ ~related
        THEN {[searches |-> <<>>, recent |-> ScanRaises]}
        ELSE [searches : [1..k -> TenderScans], recent : TenderScans]

\* Outcomes of the external lookups of one profile resolution: every lookup
\* misses, every lookup hits, and only the lookup by the identity
\* provider's e-mail address hits
EnvMiss ==
    [direct |-> "miss", username |-> "raise", email |-> "empty",
     by_uuid |-> "miss", by_cognito_email |-> "miss", by_email |-> "miss"]

EnvHit ==
    [direct |-> "hit", username |-> "found", email |-> "found",
     by_uuid |-> "hit", by_cognito_email |-> "hit", by_email |-> "hit"]

EnvMailOnly ==
    [direct |-> "raise", username |-> "found", email |-> "found",
     by_uuid |-> "unreadable", by_cognito_email |-> "hit", by_email |-> "miss"]

ServiceEnvs == {EnvMiss, EnvHit, EnvMailOnly}

NoRequest == [user_id |-> NoString]

NoResponse == [endpoint |-> "", status |-> 0]

NoProbe == [op |-> ""]

Http(endpoint, status, body) == [endpoint |-> endpoint, status |-> status, body |-> body]

\* The appended messages the live sessions hold
RECURSIVE LiveMessages(_, _)
LiveMessages(sessions, ids) ==
    IF ids = {} THEN 0
    ELSE LET u == CHOOSE x \in ids : TRUE
         IN  sessions[u].total_messages + LiveMessages(sessions, ids \ {u})

\* The history variable after a chat has looked its session up in
\* `sessions`: a session that is new (absent before, or evicted by this
\* chat's cleanup) starts its record, the evicted ones lose theirs
IssuedAfter(sessions) ==
    [u \in DOMAIN sessions |->
        IF u \in DOMAIN cleanup_old_sessions(user_sessions, now)
        THEN issued[u]
        ELSE [created |-> sessions[u].chat_context[1],
              current |-> sessions[u].chat_context[1]]]

-----------------------------------------------------------------------------
(* The HTTP handlers *)

Init ==
    /\ ollama_available \in BOOLEAN
    /\ dynamodb \in BOOLEAN
    /\ cognito \in BOOLEAN
    /\ cognito => dynamodb      \* one try block creates both clients
    /\ user_sessions = EmptyDict
    /\ now = 0
    /\ pc = "idle"
    /\ request = NoRequest
    /\ response = NoResponse
    /\ issued = EmptyDict
    /\ probe = NoProbe

\* Mutant: the availability check made after the session work
chatCheckedLate(user_id, prompt, loaded, tenders) ==
    /\ pc = "idle"
    /\ LET sessions == get_user_session(cleanup_old_sessions(user_sessions, now),
                                        user_id, loaded, now)
           session == sessions[user_id]
           enhanced_prompt ==
               enhance_prompt_with_context(prompt, session.user_profile,
                                           dynamodb, tenders)
       IN  IF ~ollama_available
           THEN /\ response' = Http("chat", 503, "AI service temporarily unavailable")
                /\ user_sessions' = sessions
                /\ issued' = IssuedAfter(sessions)
                /\ UNCHANGED <<pc, request>>
           ELSE /\ user_sessions' =
                       [sessions EXCEPT
                           ![user_id] = add_message(session, "user", enhanced_prompt)]
                /\ pc' = "completion"
                /\ request' = [user_id |-> user_id,
                               user_first_name |-> get_first_name(session.user_profile),
                               scans |-> tenders,
                               expired_users |-> DOMAIN user_sessions \ DOMAIN cleanup_old_sessions(user_sessions, now)]
                /\ response' = NoResponse
                /\ issued' = IssuedAfter(sessions)
    /\ UNCHANGED <<ollama_available, dynamodb, cognito, now, probe>>

\* Mutant: the session looked up, and its activity refreshed, before the
\* expired sessions are removed
chatLookupFirst(user_id, prompt, loaded, tenders) ==
    /\ pc = "idle"
    /\ IF ~ollama_available
       THEN /\ response' = Http("chat", 503, "AI service temporarily unavailable")
            /\ UNCHANGED <<user_sessions, pc, request, issued>>
       ELSE LET sessions == cleanup_old_sessions(
                                get_user_session(user_sessions, user_id, loaded, now), now)
                session == sessions[user_id]
                enhanced_prompt ==
                    enhance_prompt_with_context(prompt, session.user_profile,
                                                dynamodb, tenders)
            IN  /\ user_sessions' =
                       [sessions EXCEPT
                           ![user_id] = add_message(session, "user", enhanced_prompt)]
                /\ pc' = "completion"
                /\ request' = [user_id |-> user_id,
                               user_first_name |-> get_first_name(session.user_profile),
                               scans |-> tenders,
                               expired_users |-> DOMAIN user_sessions \ DOMAIN cleanup_old_sessions(user_sessions, now)]
                /\ response' = NoResponse
                /\ issued' = IssuedAfter(sessions)
    /\ UNCHANGED <<ollama_available, dynamodb, cognito, now, probe>>

\* Mutant: a handler that lets another one start while it waits for the
\* completion
chatAwaiting(user_id, prompt, loaded, tenders) ==
    /\ ollama_available
    /\ LET sessions == get_user_session(cleanup_old_sessions(user_sessions, now),
                                        user_id, loaded, now)
           session == sessions[user_id]
           enhanced_prompt ==
               enhance_prompt_with_context(prompt, session.user_profile,
                                           dynamodb, tenders)
       IN  /\ user_sessions' =
                  [sessions EXCEPT
                      ![user_id] = add_message(session, "user", enhanced_prompt)]
           /\ pc' = "completion"
           /\ request' = [user_id |-> user_id,
                          user_first_name |-> get_first_name(session.user_profile),
                          scans |-> tenders,
                               expired_users |-> DOMAIN user_sessions \ DOMAIN cleanup_old_sessions(user_sessions, now)]
           /\ response' = NoResponse
           /\ issued' = IssuedAfter(sessions)
    /\ UNCHANGED <<ollama_available, dynamodb, cognito, now, probe>>

\* POST /chat up to the completion call: the availability check,
\* cleanup_old_sessions, get_user_session, enhance_prompt_with_context and
\* the append of the user message
\* (request.scans is not a local of the handler: it notes what the tender
\* scans of this request answered; request.expired_users is the local of that
\* name of its call of cleanup_old_sessions)
chat(user_id, prompt, loaded, tenders) ==
    /\ pc = "idle"
    /\ IF ~ollama_available
       THEN /\ response' = Http("chat", 503, "AI service temporarily unavailable")
            /\ UNCHANGED <<user_sessions, pc, request, issued>>
       ELSE LET sessions == get_user_session(cleanup_old_sessions(user_sessions, now),
                                             user_id, loaded, now)
                session == sessions[user_id]
                enhanced_prompt ==
                    enhance_prompt_with_context(prompt, session.user_profile,
                                                dynamodb, tenders)
            IN  /\ user_sessions' =
                       [sessions EXCEPT
                           ![user_id] = add_message(session, "user", enhanced_prompt)]
                /\ pc' = "completion"
                /\ request' = [user_id |-> user_id,
                               user_first_name |-> get_first_name(session.user_profile),
                               scans |-> tenders,
                               expired_users |-> DOMAIN user_sessions \ DOMAIN cleanup_old_sessions(user_sessions, now)]
                /\ response' = NoResponse
                /\ issued' = IssuedAfter(sessions)
    /\ UNCHANGED <<ollama_available, dynamodb, cognito, now, probe>>

\* The text chat() answers with: the completion's, or the apology when
\* client.chat raised
ResponseText(outcome, user_first_name) ==
    IF outcome = "reply" THEN [text |-> "completion", to |-> ""]
    ELSE [text |-> "I apologize, but I'm having trouble", to |-> user_first_name]

\* Mutant: the completion's exception passed on as a 500, the turn dropped
chat_completionPropagates(outcome) ==
    /\ pc = "completion"
    /\ LET session == user_sessions[request.user_id]
           response_text == ResponseText(outcome, request.user_first_name)
           after == add_message(session, "assistant", response_text)
       IN  IF outcome = "raise"
           THEN /\ response' = Http("chat", 500, "Chat error")
                /\ UNCHANGED user_sessions
           ELSE /\ user_sessions' = [user_sessions EXCEPT ![request.user_id] = after]
                /\ response' =
                       Http("chat", 200,
                            [response |-> response_text,
                             user_id |-> request.user_id,
                             username |-> request.user_first_name,
                             full_name |-> get_display_name(after.user_profile),
                             session_active |-> TRUE,
                             total_messages |-> after.total_messages,
                             context_length |-> Len(after.chat_context)])
    /\ pc' = "idle"
    /\ request' = NoRequest
    /\ UNCHANGED <<ollama_available, dynamodb, cognito, now, issued, probe>>

\* POST /chat from the return of client.chat: the append of the assistant
\* message and the response
chat_completion(outcome) ==
    /\ pc = "completion"
    /\ LET session == user_sessions[request.user_id]
           response_text == ResponseText(outcome, request.user_first_name)
           after == add_message(session, "assistant", response_text)
       IN  /\ user_sessions' = [user_sessions EXCEPT ![request.user_id] = after]
           /\ response' =
                  Http("chat", 200,
                       [response |-> response_text,
                        user_id |-> request.user_id,
                        username |-> request.user_first_name,
                        full_name |-> get_display_name(after.user_profile),
                        session_active |-> TRUE,
                        total_messages |-> after.total_messages,
                        context_length |-> Len(after.chat_context)])
    /\ pc' = "idle"
    /\ request' = NoRequest
    /\ UNCHANGED <<ollama_available, dynamodb, cognito, now, issued, probe>>

\* GET /health
health_check ==
    /\ pc = "idle"
    /\ response' = Http("health", 200,
                        [dynamodb |-> dynamodb, cognito |-> cognito,
                         ollama |-> ollama_available,
                         active_sessions |-> Cardinality(DOMAIN user_sessions)])
    /\ UNCHANGED <<ollama_available, dynamodb, cognito, user_sessions, now, pc,
                   request, issued, probe>>

\* GET /session/{user_id}
get_session_info(user_id) ==
    /\ pc = "idle"
    /\ response' =
          IF user_id \notin DOMAIN user_sessions
          THEN Http("session", 200, [error |-> "Session not found"])
          ELSE LET session == user_sessions[user_id]
               IN  Http("session", 200,
                        [user_id |-> session.user_id,
                         first_name |-> get_first_name(session.user_profile),
                         message_count |-> session.total_messages,
                         context_length |-> Len(session.chat_context),
                         last_active |-> session.last_active])
    /\ UNCHANGED <<ollama_available, dynamodb, cognito, user_sessions, now, pc,
                   request, issued, probe>>

\* Mutant: the session removed only when it has expired
clear_sessionOnlyExpired(user_id) ==
    /\ pc = "idle"
    /\ IF user_id \in DOMAIN user_sessions
       THEN /\ user_sessions' = cleanup_old_sessions(user_sessions, now)
            /\ issued' = [u \in DOMAIN cleanup_old_sessions(user_sessions, now) |-> issued[u]]
            /\ response' = Http("delete", 200,
                                [message |-> "Session cleared successfully",
                                 cleared_session |-> get_context_summary(user_sessions[user_id])])
       ELSE /\ response' = Http("delete", 200, [message |-> "Session not found"])
            /\ UNCHANGED <<user_sessions, issued>>
    /\ UNCHANGED <<ollama_available, dynamodb, cognito, now, pc, request, probe>>

\* DELETE /session/{user_id}
clear_session(user_id) ==
    /\ pc = "idle"
    /\ IF user_id \in DOMAIN user_sessions
       THEN /\ user_sessions' = [u \in DOMAIN user_sessions \ {user_id} |-> user_sessions[u]]
            /\ issued' = [u \in DOMAIN user_sessions \ {user_id} |-> issued[u]]
            /\ response' = Http("delete", 200,
                                [message |-> "Session cleared successfully",
                                 cleared_session |-> get_context_summary(user_sessions[user_id])])
       ELSE /\ response' = Http("delete", 200, [message |-> "Session not found"])
            /\ UNCHANGED <<user_sessions, issued>>
    /\ UNCHANGED <<ollama_available, dynamodb, cognito, now, pc, request, probe>>

\* Mutant: the history reset and the counter left as it was
clear_chat_contextKeepsCounter(user_id) ==
    /\ pc = "idle"
    /\ IF user_id \in DOMAIN user_sessions
       THEN LET session == user_sessions[user_id]
                system_prompt ==
                    create_system_prompt(session.user_profile,
                                         get_first_name(session.user_profile), now)
            IN  /\ user_sessions' =
                       [user_sessions EXCEPT
                           ![user_id].chat_context = <<Message("system", system_prompt, 0)>>]
                /\ issued' = [issued EXCEPT
                                 ![user_id].current = Message("system", system_prompt, 0)]
                /\ response' = Http("clear-context", 200,
                                    [message |-> "Chat context cleared successfully",
                                     old_context_length |-> Len(session.chat_context),
                                     new_context_length |-> 1])
       ELSE /\ response' = Http("clear-context", 200, [error |-> "Session not found"])
            /\ UNCHANGED <<user_sessions, issued>>
    /\ UNCHANGED <<ollama_available, dynamodb, cognito, now, pc, request, probe>>

\* POST /session/{user_id}/clear-context
clear_chat_context(user_id) ==
    /\ pc = "idle"
    /\ IF user_id \in DOMAIN user_sessions
       THEN LET session == user_sessions[user_id]
                system_prompt ==
                    create_system_prompt(session.user_profile,
                                         get_first_name(session.user_profile), now)
            IN  /\ user_sessions' =
                       [user_sessions EXCEPT
                           ![user_id].chat_context = <<Message("system", system_prompt, 0)>>,
                           ![user_id].total_messages = 0]
                /\ issued' = [issued EXCEPT
                                 ![user_id].current = Message("system", system_prompt, 0)]
                /\ response' = Http("clear-context", 200,
                                    [message |-> "Chat context cleared successfully",
                                     old_context_length |-> Len(session.chat_context),
                                     new_context_length |-> 1])
       ELSE /\ response' = Http("clear-context", 200, [error |-> "Session not found"])
            /\ UNCHANGED <<user_sessions, issued>>
    /\ UNCHANGED <<ollama_available, dynamodb, cognito, now, pc, request, probe>>

\* Time passes between two requests
Tick(d) ==
    /\ pc = "idle"
    /\ now + d <= MaxTime
    /\ now' = now + d
    /\ UNCHANGED <<ollama_available, dynamodb, cognito, user_sessions, pc,
                   request, response, issued, probe>>

\* The profile resolutions a chat for user_id can meet under `envs`: one
\* that is not read when the session exists
LoadChoices(user_id, envs) ==
    IF user_id \in DOMAIN cleanup_old_sessions(user_sessions, now)
    THEN {Loaded(None, None, <<>>)}
    ELSE {load_user_profile(user_id, dynamodb, cognito, env) : env \in envs}

\* The service: requests of `ids` with `prompts`, profile lookups answering
\* as in `envs`, completions ending in `outcomes`, a chat accepted while the
\* sessions hold at most budget - 2 appended messages
Service(ids, prompts, envs, outcomes, budget) ==
    \/ \E user_id \in ids, prompt \in prompts :
          \E loaded \in LoadChoices(user_id, envs), tenders \in TenderChoices(prompt) :
              /\ LiveMessages(user_sessions, DOMAIN user_sessions) + 2 <= budget
              /\ chat(user_id, prompt, loaded, tenders)
    \/ \E outcome \in outcomes : chat_completion(outcome)
    \/ health_check
    \/ \E user_id \in ids : get_session_info(user_id)
    \/ \E user_id \in ids : clear_session(user_id)
    \/ \E user_id \in ids : clear_chat_context(user_id)
    \/ \E d \in ClockSteps : Tick(d)

\* Two users' sessions over time
Next == Service(UserIds, {Hello}, ServiceEnvs, {"reply", "raise"}, MaxLiveMessages)

Spec == Init /\ [][Next]_vars

\* One user's long conversation
NextWindow == Service({Guest}, {Hello}, ServiceEnvs, {"reply"}, MaxWindowMessages)

SpecWindow == Init /\ [][NextWindow]_vars

\* One user's turns with every kind of prompt and every answer of the
\* tender table
NextTurn == Service({Guest}, Prompts, ServiceEnvs, {"reply", "raise"}, MaxTurnMessages)

SpecTurn == Init /\ [][NextTurn]_vars

-----------------------------------------------------------------------------
(* Session creation on its own, under every outcome of the lookups *)

Idle ==
    /\ user_sessions = EmptyDict
    /\ now = 0
    /\ pc = "idle"
    /\ request = NoRequest
    /\ response = NoResponse
    /\ issued = EmptyDict

InitProfile ==
    /\ ollama_available = TRUE
    /\ dynamodb \in BOOLEAN
    /\ cognito \in BOOLEAN
    /\ cognito => dynamodb
    /\ Idle
    /\ probe \in [op : {"create"}, user_id : AllIds, env : ProfileEnvs,
                  calls : {<<>>}, done : {FALSE}]

\* get_user_session(probe.user_id) on the empty map: UserSession.__init__
\* runs load_user_profile against the lookups answering as probe.env says
CreateSession ==
    /\ probe.op = "create"
    /\ ~probe.done
    /\ LET loaded == load_user_profile(probe.user_id, dynamodb, cognito, probe.env)
       IN  /\ user_sessions' = get_user_session(user_sessions, probe.user_id, loaded, now)
           /\ probe' = [probe EXCEPT !.calls = loaded.calls, !.done = TRUE]
    /\ UNCHANGED <<ollama_available, dynamodb, cognito, now, pc, request, response,
                   issued>>

SpecProfile == InitProfile /\ [][CreateSession]_vars

-----------------------------------------------------------------------------
(* The context formatter on its own *)

\* The longest scan result that is rendered
MaxRendered == 2

\* The tender items scanned: the link absent, a string, the same string as
\* the source URL, or stored as NULL; the source URL absent or a string
LinkValues ==
    {None, Tagged("S", "https://docs.example/a.pdf"),
     Tagged("S", "https://portal.example/a"), Tagged("NULL", TRUE)}

SourceValues ==
    {None, Tagged("S", "https://portal.example/a"),
     Tagged("S", "https://portal.example/b")}

ContactValues == {None, Tagged("S", "scm@example.gov.za")}

ItemOf(link, sourceUrl, contactEmail) ==
    LET given == [link |-> link, sourceUrl |-> sourceUrl, contactEmail |-> contactEmail]
    IN  [k \in {"title"} \cup {a \in DOMAIN given : given[a] # None} |->
            IF k = "title" THEN Tagged("S", "Road upgrade") ELSE given[k]]

ScannedItems ==
    {ItemOf(l, u, c) : l \in LinkValues, u \in SourceValues, c \in ContactValues}

RECURSIVE SeqsUpTo(_, _)
SeqsUpTo(S, n) ==
    IF n = 0 THEN {<<>>}
    ELSE LET shorter == SeqsUpTo(S, n - 1)
         IN  shorter \cup {Append(q, x) : q \in shorter, x \in S}

InitFormat ==
    /\ ollama_available = TRUE
    /\ dynamodb = TRUE
    /\ cognito = FALSE
    /\ Idle
    /\ probe \in [op : {"format"}, items : SeqsUpTo(ScannedItems, MaxRendered),
                  text : {<<>>}, done : {FALSE}]

\* get_tender_information on a scan that answers probe.items: the items'
\* string attributes, rendered by format_tenders_for_ai
RenderTenders ==
    /\ probe.op = "format"
    /\ ~probe.done
    /\ probe' = [probe EXCEPT !.text = get_tender_information(dynamodb, ScanOf(probe.items)),
                              !.done = TRUE]
    /\ UNCHANGED <<ollama_available, dynamodb, cognito, user_sessions, now, pc,
                   request, response, issued>>

SpecFormat == InitFormat /\ [][RenderTenders]_vars

-----------------------------------------------------------------------------
(* The properties *)

Context(u) == user_sessions[u].chat_context

Total(u) == user_sessions[u].total_messages

Expired(u) == now - user_sessions[u].last_active > 7200

\* C1: in every reachable state, the state between the two appends of a chat
\* included, every session's history starts with a message of role 'system'
\* and holds at most 21 messages.
C1_SystemFirstAtMost21 ==
    \A u \in DOMAIN user_sessions :
        /\ Len(Context(u)) >= 1
        /\ Context(u)[1].role = "system"
        /\ Len(Context(u)) <= 21

\* A chat in flight whose user message was the 23rd append: the history was
\* cut and is full
C1_Witness ==
    /\ pc = "completion"
    /\ request.user_id \in DOMAIN user_sessions
    /\ Total(request.user_id) = 23
    /\ Len(Context(request.user_id)) = 21

\* C2, as stated: once more than 20 messages have been appended, the history
\* is the instruction message with the content it had at session creation,
\* followed by exactly the 20 most recently appended messages in their order.
C2_OriginalInstructionKept ==
    \A u \in DOMAIN user_sessions :
        Total(u) > 20 =>
            /\ Len(Context(u)) = 21
            /\ Context(u)[1] = issued[u].created
            /\ \A i \in 2..21 : Context(u)[i].n = Total(u) - 21 + i

\* C2, amended: once more than 20 messages have been appended, the history is
\* the instruction message that was at index 0 before the appends (the one of
\* session creation or, after a clear-context, the one clear-context built,
\* which carries a later time), followed by exactly the 20 most recently
\* appended messages in their order.
C2_CurrentInstructionKept ==
    \A u \in DOMAIN user_sessions :
        Total(u) > 20 =>
            /\ Len(Context(u)) = 21
            /\ Context(u)[1] = issued[u].current
            /\ \A i \in 2..21 : Context(u)[i].n = Total(u) - 21 + i

\* 30 messages appended: indices 1..20 hold the appended messages 11..30
C2_Witness ==
    \E u \in DOMAIN user_sessions :
        /\ Total(u) = 30
        /\ Len(Context(u)) = 21
        /\ Context(u)[2].n = 11
        /\ Context(u)[21].n = 30

\* A chat request of Spec
ChatRequested ==
    \E user_id \in UserIds :
        \E loaded \in LoadChoices(user_id, ServiceEnvs), tenders \in TenderChoices(Hello) :
            chat(user_id, Hello, loaded, tenders)

\* C3: while the completion API is unavailable, a chat request answers 503
\* and leaves the session map as it was: no session created, none evicted, no
\* last-active time refreshed, no message appended.
C3_UnavailableLeavesSessions ==
    [][(~ollama_available /\ ChatRequested) =>
          /\ response'.endpoint = "chat"
          /\ response'.status = 503
          /\ user_sessions' = user_sessions
          /\ pc' = "idle"]_vars

\* A chat was refused.  ollama_available is set once, when the module is
\* loaded, so no chat has created a session before
C3_Witness ==
    /\ ~ollama_available
    /\ response.endpoint = "chat"
    /\ response.status = 503
    /\ user_sessions = EmptyDict

\* C4: when the completion call raises, the request answers 200 with the
\* apology addressed to the session's first name, and the history ends with
\* the turn's user message followed by that apology as the assistant message.
C4_RaisingCompletionRecorded ==
    [][chat_completion("raise") =>
          LET u == request.user_id
              before == user_sessions[u]
              after == user_sessions'[u]
              k == Len(after.chat_context)
              apology == [text |-> "I apologize, but I'm having trouble",
                          to |-> get_first_name(before.user_profile)]
          IN  /\ response'.status = 200
              /\ response'.body.response = apology
              /\ after.total_messages = before.total_messages + 1
              /\ response'.body.total_messages = after.total_messages
              /\ after.chat_context[k] =
                     [role |-> "assistant", content |-> apology,
                      n |-> after.total_messages]
              /\ after.chat_context[k - 1] =
                     before.chat_context[Len(before.chat_context)]
              /\ after.chat_context[k - 1].role = "user"
              /\ after.chat_context[k - 1].n = after.total_messages - 1]_vars

\* A chat answered with the apology to a user whose profile was found
C4_Witness ==
    /\ response.endpoint = "chat"
    /\ response.status = 200
    /\ response.body.response.text = "I apologize, but I'm having trouble"
    /\ response.body.response.to = "Thandi"
    /\ LET ctx == Context(response.body.user_id)
       IN  /\ ctx[Len(ctx)].role = "assistant"
           /\ ctx[Len(ctx)].content = response.body.response

\* C5: the appended messages of a session are in the order of their appends,
\* odd appends with role 'user' and even ones with role 'assistant'; between
\* requests every session has had an even number of appends and a history
\* that is empty after the instruction message or goes from a user message
\* to an assistant message; during a request exactly its session has one
\* append more, the user message.
C5_PairsInOrder ==
    \A u \in DOMAIN user_sessions :
        LET ctx == Context(u)
            len == Len(ctx)
            inFlight == pc = "completion" /\ request.user_id = u
        IN  /\ \A i \in 2..len :
                   /\ ctx[i].n = Total(u) - len + i
                   /\ ctx[i].role = IF ctx[i].n % 2 = 1 THEN "user" ELSE "assistant"
            /\ Total(u) % 2 = (IF inFlight THEN 1 ELSE 0)
            /\ len > 1 => ctx[len].role = (IF inFlight THEN "user" ELSE "assistant")
            /\ ~inFlight /\ len > 1 => ctx[2].role = "user"

\* Between requests, a session with two pairs, the second one closed by the
\* apology
C5_Witness ==
    /\ pc = "idle"
    /\ \E u \in DOMAIN user_sessions :
          /\ Total(u) = 4
          /\ Len(Context(u)) = 5
          /\ Context(u)[3].content.text = "completion"
          /\ Context(u)[5].content.text = "I apologize, but I'm having trouble"

\* C6: a session appears in the map only by a chat request for its id, with
\* the instruction message and the turn's user message as its history; a chat
\* request for a present id that has not expired adds its user message to
\* the history that was there and keeps the profile; the introspection,
\* delete and clear-context endpoints answer a not-found object for an
\* absent id and leave the map as it was.
C6_SessionsByChatOnly ==
    [][\A u \in UserIds :
          /\ (u \notin DOMAIN user_sessions /\ u \in DOMAIN user_sessions') =>
                /\ pc = "idle" /\ pc' = "completion" /\ request'.user_id = u
                /\ Len(user_sessions'[u].chat_context) = 2
                /\ user_sessions'[u].chat_context[1].role = "system"
                /\ user_sessions'[u].chat_context[2].role = "user"
                /\ user_sessions'[u].chat_context[2].n = 1
                /\ user_sessions'[u].total_messages = 1
          /\ (/\ u \in DOMAIN user_sessions /\ ~Expired(u)
              /\ pc = "idle" /\ pc' = "completion" /\ request'.user_id = u) =>
                /\ u \in DOMAIN user_sessions'
                /\ Len(user_sessions'[u].chat_context) = Len(Context(u)) + 1
                /\ SubSeq(user_sessions'[u].chat_context, 1, Len(Context(u))) = Context(u)
                /\ user_sessions'[u].total_messages = Total(u) + 1
                /\ user_sessions'[u].user_profile = user_sessions[u].user_profile
          /\ (/\ u \notin DOMAIN user_sessions
              /\ \/ get_session_info(u) \/ clear_session(u) \/ clear_chat_context(u)) =>
                /\ user_sessions' = user_sessions
                /\ response'.status = 200
                /\ response'.body \in {[error |-> "Session not found"],
                                       [message |-> "Session not found"]}]_vars

\* A second chat request of a user in flight on the session of the first
C6_Witness ==
    /\ pc = "completion"
    /\ request.user_id \in DOMAIN user_sessions
    /\ Total(request.user_id) = 3
    /\ Len(Context(request.user_id)) = 4

\* C7: after a GET /health no session that has been inactive for more than
\* the timeout is in the session map, and the reported count of active
\* sessions does not include one.
C7_HealthEvictsExpired ==
    [][health_check =>
          /\ \A u \in DOMAIN user_sessions' :
                 now' - user_sessions'[u].last_active <= 7200
          /\ response'.body.active_sessions =
                 Cardinality({u \in DOMAIN user_sessions : ~Expired(u)})]_vars

\* The session CreateSession made
Created == user_sessions[probe.user_id]

\* TRUE when load_user_profile called the identity provider
ProviderConsulted ==
    \E i \in 1..Len(probe.calls) :
        probe.calls[i] \in {"cognito admin_get_user", "cognito list_users"}

C9_ProfileAlwaysUsable ==
    (probe.op = "create" /\ probe.done) =>
        /\ probe.user_id \in DOMAIN user_sessions
        /\ LET p == Created.user_profile
               found == {DdToPy(UserItemById(k)) : k \in {probe.user_id, CognitoSub}}
                        \cup {DdToPy(UserItemByEmail(e)) : e \in {probe.user_id, CognitoEmail}}
           IN  /\ p # None
               /\ DOMAIN p # {}
               /\ p \notin found => (p = create_default_profile /\ p.firstName = "User")
        /\ Len(Created.chat_context) = 1
        /\ Created.chat_context[1].role = "system"

\* An e-mail identifier for which every call raises or answers an item that
\* cannot be read
C9_Witness ==
    /\ probe.op = "create" /\ probe.done
    /\ dynamodb /\ cognito
    /\ probe.user_id = LongMailId
    /\ probe.env.direct = "unreadable"
    /\ probe.env.username = "raise"
    /\ probe.env.email = "raise"
    /\ probe.env.by_email = "raise"
    /\ Created.user_profile = create_default_profile

\* The lines of the rendered text with a label
LinesOf(label) == SelectSeq(probe.text, LAMBDA line : line.label = label)

\* C10: the rendered text has one 'Documents' line for each tender; it
\* carries the string stored under 'link', and 'No link available' when no
\* string is stored there, in which case it is not the value of 'sourceUrl',
\* which the tender's 'Source' line carries.
C10_DocumentsFromLinkOnly ==
    (probe.op = "format" /\ probe.done) =>
        /\ Len(LinesOf("Documents")) = Len(probe.items)
        /\ Len(LinesOf("Source")) = Len(probe.items)
        /\ \A i \in 1..Len(probe.items) :
              LET item == probe.items[i]
                  hasLink == IF "link" \in DOMAIN item THEN item.link.tag = "S" ELSE FALSE
              IN  /\ LinesOf("Documents")[i].value =
                         IF hasLink THEN item.link.val ELSE "No link available"
                  /\ ("sourceUrl" \in DOMAIN item) =>
                         /\ LinesOf("Source")[i].value = item.sourceUrl.val
                         /\ ~hasLink => LinesOf("Documents")[i].value # item.sourceUrl.val

\* Two tenders rendered, the second with a source URL and no link
C10_Witness ==
    /\ probe.op = "format" /\ probe.done
    /\ Len(probe.items) = 2
    /\ "link" \notin DOMAIN probe.items[2]
    /\ "sourceUrl" \in DOMAIN probe.items[2]
    /\ LinesOf("Documents")[2].value = "No link available"
    /\ LinesOf("Source")[2].value = "https://portal.example/b"

-----------------------------------------------------------------------------
(* The record normalizer on its own *)

\* The longest list value of an item
MaxElements == 2

\* The elements of a list value: {tag: val}
ElementValues ==
    {Tagged("S", "abc"), Tagged("S", "IT Services"), Tagged("N", "5"),
     Tagged("BOOL", TRUE), Tagged("M", [inner |-> Tagged("S", "x")])}

\* The values of an attribute: one of each tag, a map holding a list, a
\* value of a tag the normalizer does not know, and the lists
AttributeValues ==
    {Tagged("S", "abc"), Tagged("N", "42"), Tagged("N", "-5"),
     Tagged("BOOL", TRUE), Tagged("SS", <<"a", "b">>), Tagged("NULL", TRUE),
     Tagged("M", [inner |-> Tagged("S", "x")]),
     Tagged("M", [inner |-> Tagged("L", <<Tagged("S", "N")>>)])}
    \cup {Tagged("L", list) : list \in SeqsUpTo(ElementValues, MaxElements)}

\* The items with the attributes a and b, each absent or holding a value
NormalizerItems ==
    LET given == [a : AttributeValues \cup {None}, b : AttributeValues \cup {None}]
    IN  {[k \in {x \in {"a", "b"} : g[x] # None} |-> g[k]] : g \in given}

InitNormalize ==
    /\ ollama_available = TRUE
    /\ dynamodb = TRUE
    /\ cognito = FALSE
    /\ Idle
    /\ probe \in [op : {"normalize"}, item : NormalizerItems,
                  result : {EmptyDict}, raised : {FALSE}, done : {FALSE}]

\* dd_to_py(probe.item): what it returns, or that it raised
NormalizeItem ==
    /\ probe.op = "normalize"
    /\ ~probe.done
    /\ probe' = [probe EXCEPT
                    !.raised = DdToPyRaises(probe.item),
                    !.result = IF DdToPyRaises(probe.item) THEN EmptyDict
                               ELSE DdToPy(probe.item),
                    !.done = TRUE]
    /\ UNCHANGED <<ollama_available, dynamodb, cognito, user_sessions, now, pc,
                   request, response, issued>>

SpecNormalize == InitNormalize /\ [][NormalizeItem]_vars

\* C11: for every item the normalizer returns without raising; the result
\* has the keys of the item whose values carry a known tag; and a list value
\* becomes a list of the same length whose element for a string, number or
\* boolean is that native value, which is not an empty mapping.
C11_NormalizerTotalAndDeep ==
    (probe.op = "normalize" /\ probe.done) =>
        /\ ~probe.raised
        /\ DOMAIN probe.result =
               {k \in DOMAIN probe.item :
                    probe.item[k].tag \in {"S", "N", "BOOL", "SS", "M", "L"}}
        /\ \A k \in DOMAIN probe.result :
               probe.item[k].tag = "L" =>
                   /\ Len(probe.result[k]) = Len(probe.item[k].val)
                   /\ \A i \in 1..Len(probe.item[k].val) :
                          probe.item[k].val[i].tag \in {"S", "N", "BOOL"} =>
                              probe.result[k][i] # EmptyDict

\* TRUE when the last request answered was the delete of u's session
JustDeleted(u) ==
    /\ response.endpoint = "delete"
    /\ "cleared_session" \in DOMAIN response.body
    /\ response.body.cleared_session.user_id = u

\* C12: a delete request for an id that has a session removes it, whatever
\* its age, and leaves the other sessions; a chat request of that user that
\* follows starts a session made at that moment, holding the instruction
\* message and the user message, and its completion leaves the history
\* instruction, user, assistant with the counter at 2.
C12_DeleteEvictsAtOnce ==
    [][\A u \in UserIds :
          /\ (u \in DOMAIN user_sessions /\ clear_session(u)) =>
                /\ u \notin DOMAIN user_sessions'
                /\ \A v \in DOMAIN user_sessions \ {u} :
                       v \in DOMAIN user_sessions' /\ user_sessions'[v] = user_sessions[v]
                /\ response'.body.message = "Session cleared successfully"
          /\ (JustDeleted(u) /\ pc' = "completion" /\ request'.user_id = u) =>
                /\ Len(user_sessions'[u].chat_context) = 2
                /\ user_sessions'[u].chat_context[1].role = "system"
                /\ user_sessions'[u].chat_context[1].content.time = now
                /\ user_sessions'[u].chat_context[2].role = "user"
                /\ user_sessions'[u].chat_context[2].n = 1
                /\ user_sessions'[u].total_messages = 1
          /\ (/\ pc = "completion" /\ request.user_id = u /\ pc' = "idle"
              /\ Total(u) = 1) =>
                /\ Len(user_sessions'[u].chat_context) = 3
                /\ user_sessions'[u].chat_context[1] = Context(u)[1]
                /\ user_sessions'[u].chat_context[2] = Context(u)[2]
                /\ user_sessions'[u].chat_context[3].role = "assistant"
                /\ user_sessions'[u].total_messages = 2]_vars

\* A session that was active at this very moment and held a turn has just
\* been deleted
C12_Witness ==
    /\ response.endpoint = "delete"
    /\ "cleared_session" \in DOMAIN response.body
    /\ response.body.cleared_session.total_messages = 2
    /\ response.body.cleared_session.last_active = now
    /\ response.body.cleared_session.user_id \notin DOMAIN user_sessions

\* A scan that raises or finds nothing
ScanFails(resp) == resp.raises \/ resp.items = <<>>

\* The database is disconnected, or every scan of the request fails
DatabaseFails(tenders) ==
    \/ ~dynamodb
    \/ /\ \A i \in 1..Len(tenders.searches) : ScanFails(tenders.searches[i])
       /\ ScanFails(tenders.recent)

\* The texts that stand for the tender list when there is none
NoTenderTexts ==
    {<<Line("text", "Database currently unavailable")>>,
     <<Line("text", "No tenders found in the database.")>>,
     <<Line("Error accessing tender database", "exception")>>}

\* C13: with the completion API available and the tender database
\* disconnected, empty or raising, a chat request goes on to the completion
\* call with its user message recorded; the context of a prompt that asks
\* about tenders or names a category is one of the texts that stand for the
\* missing list (after the line naming the categories that found nothing),
\* that of another prompt is empty; and the request is answered with 200 and
\* the assistant message recorded.
C13_DatabaseFailureIsText ==
    [][/\ (pc = "idle" /\ pc' = "completion" /\ DatabaseFails(request'.scans)) =>
             LET after == user_sessions'[request'.user_id]
                 message == after.chat_context[Len(after.chat_context)]
                 prompt == message.content.Message
                 matched == MatchedCategories(prompt)
                 asks == \E keyword \in tender_keywords : OccursIn(keyword, prompt)
             IN  /\ ollama_available
                 /\ message.role = "user"
                 /\ message.n = after.total_messages
                 /\ prompt \in Prompts
                 /\ IF matched # <<>>
                    THEN \E text \in NoTenderTexts :
                            message.content.context =
                               <<Line("No specific tenders found for categories",
                                      matched)>> \o text
                    ELSE IF asks THEN message.content.context \in NoTenderTexts
                    ELSE message.content.context = <<>>
       /\ (pc = "completion" /\ pc' = "idle") =>
             /\ response'.endpoint = "chat"
             /\ response'.status = 200
             /\ user_sessions'[request.user_id].total_messages =
                    Total(request.user_id) + 1
             /\ LET ctx == user_sessions'[request.user_id].chat_context
                IN  ctx[Len(ctx)].role = "assistant"]_vars

\* A prompt naming two categories in flight, the category scans having
\* found nothing and the general scan having raised
C13_Witness ==
    /\ pc = "completion"
    /\ dynamodb
    /\ LET ctx == Context(request.user_id)
       IN  ctx[Len(ctx)].content.context =
               <<Line("No specific tenders found for categories",
                      <<"Construction", "Healthcare">>),
                 Line("Error accessing tender database", "exception")>>

-----------------------------------------------------------------------------
(* Chat requests of one user that are in flight together.  The handlers are *)
(* coroutines of one event loop; chat() has no await and calls the          *)
(* synchronous client, so the loop starts the next handler when the running *)
(* one has returned.                                                        *)

\* The chat requests that arrive
MaxArrivals == 3

\* The chat requests of Guest the loop has started
Started ==
    IF Guest \in DOMAIN user_sessions
    THEN (user_sessions[Guest].total_messages + 1) \div 2
    ELSE 0

\* The chat requests that have arrived and wait for the loop
Waiting == probe.arrived - Started

InitLoop ==
    /\ ollama_available = TRUE
    /\ dynamodb \in BOOLEAN
    /\ cognito \in BOOLEAN
    /\ cognito => dynamodb
    /\ Idle
    /\ probe = [op |-> "loop", arrived |-> 0, overlap |-> FALSE]

\* A chat request of Guest arrives, whatever the loop is doing.
\* probe.overlap notes that it arrived while another one was in flight.
Arrive ==
    /\ probe.arrived < MaxArrivals
    /\ probe' = [probe EXCEPT
                    !.arrived = probe.arrived + 1,
                    !.overlap = probe.overlap \/ pc = "completion" \/ Waiting > 0]
    /\ UNCHANGED <<ollama_available, dynamodb, cognito, user_sessions, now, pc,
                   request, response, issued>>

\* The loop starts the handler of a waiting request
Start ==
    /\ Waiting > 0
    /\ \E loaded \in LoadChoices(Guest, ServiceEnvs), tenders \in TenderChoices(Hello) :
          chat(Guest, Hello, loaded, tenders)

\* client.chat returns or raises, and the handler runs to its end
Complete == \E outcome \in {"reply", "raise"} : chat_completion(outcome)

NextLoop == Arrive \/ Start \/ Complete

\* The loop runs a waiting handler, and the client's call ends
SpecLoop ==
    InitLoop /\ [][NextLoop]_vars /\ WF_vars(Start) /\ WF_vars(Complete)

\* TRUE when some history holds two user messages with no reply between
Interleaved ==
    \E u \in DOMAIN user_sessions :
        \E i \in 2..(Len(Context(u)) - 1) :
            Context(u)[i].role = "user" /\ Context(u)[i + 1].role = "user"

C15_ExactlyTheExpiredEvicted ==
    [][IF pc = "idle" /\ pc' = "completion"
       THEN /\ \A u \in DOMAIN user_sessions' :
                   now - user_sessions'[u].last_active <= 7200
            /\ \A u \in DOMAIN user_sessions :
                   IF Expired(u)
                   THEN \/ u \notin DOMAIN user_sessions'
                        \/ /\ u = request'.user_id
                           /\ user_sessions'[u].total_messages = 1
                           /\ user_sessions'[u].chat_context[1].content.time = now
                   ELSE /\ u \in DOMAIN user_sessions'
                        /\ u # request'.user_id => user_sessions'[u] = user_sessions[u]
                        /\ u = request'.user_id =>
                              /\ Len(user_sessions'[u].chat_context) = Len(Context(u)) + 1
                              /\ SubSeq(user_sessions'[u].chat_context, 1, Len(Context(u)))
                                     = Context(u)
       ELSE \A u \in DOMAIN user_sessions :
               u \notin DOMAIN user_sessions' =>
                   /\ response'.endpoint = "delete"
                   /\ response'.body.message = "Session cleared successfully"
                   /\ response'.body.cleared_session.user_id = u]_vars

\* A chat request of another user is in flight at time 7200, and the session
\* that was last active at time 0 is still there
C15_Witness ==
    /\ pc = "completion"
    /\ now = 7200
    /\ request.user_id = RegionId
    /\ Guest \in DOMAIN user_sessions
    /\ user_sessions[Guest].last_active = 0
    /\ Total(Guest) = 2

\* C16: a chat request of a user whose session has been inactive for more
\* than 7200 seconds goes to the completion call with a session made in this
\* request: active now, its profile resolved by load_user_profile again, its
\* history the instruction message built now and the request's user message,
\* its counter 1; and the completion leaves instruction, user, assistant and
\* the counter 2.
C16_ExpiredNeverResumed ==
    [][/\ \A u \in UserIds :
          (/\ pc = "idle" /\ pc' = "completion" /\ request'.user_id = u
           /\ u \in DOMAIN user_sessions /\ Expired(u)) =>
             LET new == user_sessions'[u]
             IN  /\ new.last_active = now
                 /\ new.total_messages = 1
                 /\ Len(new.chat_context) = 2
                 /\ new.chat_context[1].role = "system"
                 /\ new.chat_context[1].content.time = now
                 /\ new.chat_context[2].role = "user"
                 /\ new.chat_context[2].n = 1
                 /\ issued'[u].created = new.chat_context[1]
                 /\ \E env \in ServiceEnvs :
                       LET loaded == load_user_profile(u, dynamodb, cognito, env)
                       IN  /\ new.user_profile = loaded.user_profile
                           /\ new.cognito_user = loaded.cognito_user
       /\ (/\ pc = "completion" /\ pc' = "idle"
           /\ request.user_id \in request.expired_users) =>
             LET after == user_sessions'[request.user_id]
             IN  /\ after.total_messages = 2
                 /\ Len(after.chat_context) = 3
                 /\ after.chat_context[3].role = "assistant"
                 /\ after.chat_context[1].content.time = now]_vars

\* A chat request is in flight on the session that replaced the user's
\* expired one
C16_Witness ==
    /\ pc = "completion"
    /\ request.user_id \in request.expired_users
    /\ Total(request.user_id) = 1
    /\ Context(request.user_id)[1].content.time = 7201
    /\ user_sessions[request.user_id].last_active = 7201

\* C17: the history handed to the completion call starts with the
\* instruction message followed by a user message, ends with the request's
\* user message, alternates between user and assistant after the instruction
\* message, and holds at most 21 messages.
C17_CompletionInputWellFormed ==
    pc = "completion" =>
        LET messages == Context(request.user_id)
            len == Len(messages)
        IN  /\ len <= 21
            /\ messages[1].role = "system"
            /\ messages[2].role = "user"
            /\ messages[len].role = "user"
            /\ messages[len].n = Total(request.user_id)
            /\ \A i \in 2..(len - 1) :
                   messages[i].role # messages[i + 1].role
            /\ \A i \in 2..len : messages[i].role \in {"user", "assistant"}

\* C18: in every state every history is min(total_messages + 1, 21) long.
\* The counter of a session that stays grows by one with each append (the
\* user message when the chat request starts, the reply when it ends), also
\* when the history is cut, and is otherwise left alone, except that
\* clear-context sets it to 0 and the history to one instruction message,
\* the session staying in the map.
C18_LengthFollowsCounter ==
    /\ [](\A u \in DOMAIN user_sessions :
             Len(Context(u)) = Min(Total(u) + 1, 21))
    /\ [][\A u \in DOMAIN user_sessions :
             IF clear_chat_context(u)
             THEN /\ u \in DOMAIN user_sessions'
                  /\ user_sessions'[u].total_messages = 0
                  /\ Len(user_sessions'[u].chat_context) = 1
                  /\ user_sessions'[u].chat_context[1].role = "system"
                  /\ user_sessions'[u].last_active = user_sessions[u].last_active
             ELSE u \in DOMAIN user_sessions' =>
                     user_sessions'[u].total_messages =
                        IF pc = "idle" /\ pc' = "completion" /\ request'.user_id = u
                        THEN (IF Expired(u) THEN 1 ELSE Total(u) + 1)
                        ELSE IF pc = "completion" /\ pc' = "idle" /\ request.user_id = u
                        THEN Total(u) + 1
                        ELSE Total(u)]_vars

\* The context of a session whose history had been cut has just been cleared
C18_Witness ==
    /\ response.endpoint = "clear-context"
    /\ "old_context_length" \in DOMAIN response.body
    /\ response.body.old_context_length = 21
    /\ Guest \in DOMAIN user_sessions
    /\ Total(Guest) = 0
    /\ Len(Context(Guest)) = 1

\* C19: a request for user A leaves every other user's session as it was
\* (history, counter, profile, last-active time), makes no session for
\* another user, and removes another user's session only when it is a
\* handled chat request and that session has expired.  GET /session leaves
\* every session as it was, the requested one included.
RequestFor(a) ==
    \/ pc = "idle" /\ pc' = "completion" /\ request'.user_id = a
    \/ pc = "completion" /\ pc' = "idle" /\ request.user_id = a
    \/ response'.endpoint = "session" /\ get_session_info(a)
    \/ response'.endpoint = "delete" /\ clear_session(a)
    \/ response'.endpoint = "clear-context" /\ clear_chat_context(a)

C19_SessionsIsolated ==
    [][\A a \in UserIds :
          /\ RequestFor(a) =>
                /\ \A u \in DOMAIN user_sessions \ {a} :
                       \/ /\ u \in DOMAIN user_sessions'
                          /\ user_sessions'[u] = user_sessions[u]
                       \/ /\ u \notin DOMAIN user_sessions'
                          /\ pc = "idle" /\ pc' = "completion"
                          /\ Expired(u)
                /\ DOMAIN user_sessions' \ {a} \subseteq DOMAIN user_sessions
          /\ (response'.endpoint = "session" /\ get_session_info(a)) =>
                user_sessions' = user_sessions]_vars

\* The context of one user's session has just been cleared while the other
\* user's session holds a turn of its own
C19_Witness ==
    /\ response.endpoint = "clear-context"
    /\ "old_context_length" \in DOMAIN response.body
    /\ response.body.old_context_length = 3
    /\ Guest \in DOMAIN user_sessions /\ RegionId \in DOMAIN user_sessions
    /\ Total(Guest) = 0
    /\ Total(RegionId) = 2
    /\ Len(Context(RegionId)) = 3

-----------------------------------------------------------------------------
(* The category search on its own *)

\* search_tenders_by_category: `Limit=8`
ScanLimit == 8

\* The longest scan result drawn from TenderItems
MaxFound == 2

TenderNumbers ==
    <<"T-11", "T-12", "T-13", "T-14", "T-15", "T-16", "T-17", "T-18",
      "T-21", "T-22", "T-23", "T-24", "T-25", "T-26", "T-27", "T-28">>

\* A scan that answers as many items as the limit lets it, the k-th with
\* ids of its own
FullScan(k) ==
    ScanOf([i \in 1..ScanLimit |->
               [tenderId |-> Tagged("S", TenderNumbers[ScanLimit * (k - 1) + i]),
                title |-> Tagged("S", "Lot")]])

\* What the scan of one category answers: an exception, up to MaxFound of
\* the tender items, or a full page
SearchScans ==
    {ScanRaises} \cup {ScanOf(items) : items \in SeqsUpTo(TenderItems, MaxFound)}
        \cup {FullScan(1), FullScan(2)}

\* The matched categories handed over by enhance_prompt_with_context
SearchedCategories == {<<"Construction">>, <<"Construction", "Healthcare">>}

InitSearch ==
    /\ ollama_available = TRUE
    /\ dynamodb \in BOOLEAN
    /\ cognito = FALSE
    /\ Idle
    /\ \E categories \in SearchedCategories :
          probe \in [op : {"search"}, categories : {categories},
                     searches : [1..Len(categories) -> SearchScans],
                     result : {None}, done : {FALSE}]

\* get_tenders_by_multiple_categories(probe.categories), the scan of the
\* i-th category answering probe.searches[i]
SearchCategories ==
    /\ probe.op = "search"
    /\ ~probe.done
    /\ probe' = [probe EXCEPT
                    !.result = get_tenders_by_multiple_categories(
                                   probe.categories, dynamodb, probe.searches),
                    !.done = TRUE]
    /\ UNCHANGED <<ollama_available, dynamodb, cognito, user_sessions, now, pc,
                   request, response, issued>>

SpecSearch == InitSearch /\ [][SearchCategories]_vars

\* TRUE when a and b are the same tender: by id, and without ids by content
SameTender(a, b) ==
    IF TenderIdOf(a) # "" /\ TenderIdOf(b) # ""
    THEN TenderIdOf(a) = TenderIdOf(b)
    ELSE TenderIdOf(a) = TenderIdOf(b) /\ a = b

\* C20: with the database disconnected the call returns nothing; otherwise
\* it returns, of the tenders the category searches that did not fail found,
\* in the order found, the first occurrence of every tender (a tender being
\* the same as another when they have the same id), cut to the first 10.
C20_DeduplicatedUnion ==
    (probe.op = "search" /\ probe.done) =>
        IF ~dynamodb THEN probe.result = None
        ELSE /\ probe.result # None
             /\ LET found ==
                        Concat([i \in 1..Len(probe.categories) |->
                                   IF probe.searches[i].raises THEN <<>>
                                   ELSE ScannedTenders(probe.searches[i])])
                    keep == {i \in 1..Len(found) :
                                \A j \in 1..(i - 1) : ~SameTender(found[j], found[i])}
                    first == [n \in 1..Cardinality(keep) |->
                                 found[CHOOSE i \in keep :
                                          Cardinality({j \in keep : j <= i}) = n]]
                IN  probe.result.some = SubSeq(first, 1, Min(Len(first), 10))

====
